---- MODULE Spec2Model ----
(***************************************************************************)
(* FormPage (src/src/pages/FormPage.tsx): the webhook-driven form page.    *)
(* The component's React state, the requests it has in flight and the     *)
(* user / router / network events that drive it.                          *)
(* QuizQuestion (src/unnamed/part_000): one presented quiz question, the   *)
(* timers its option buttons start and the calls it makes to its parent.   *)
(*                                                                         *)
(* Strings the validators look into are sequences of one-character        *)
(* strings; answer values are tagged records [t, v] (t is the JavaScript   *)
(* runtime type of the value).                                            *)
(***************************************************************************)
EXTENDS Integers, Sequences, FiniteSets, Bags, TLC

VARIABLES formId, formState, formConfig, formData, errorMessage,
          validationErrors, currentQuestionIndex, currentSectionIndex,
          pending, quizQuestion

\* the state of FormPage
pageVars == <<formId, formState, formConfig, formData, errorMessage,
              validationErrors, currentQuestionIndex, currentSectionIndex,
              pending>>
vars == <<pageVars, quizQuestion>>

(***************************************************************************)
(* Bounds                                                                  *)
(***************************************************************************)
\* largest number of unresolved operations (fetches, file conversions,
\* submissions) the model lets coexist
MaxInflight == 2
\* largest number of files a multi-file answer holds in the model
MaxFiles == 2
\* largest number of option-click timers pending together, of questions
\* presented to one QuizQuestion, and of option clicks followed
MaxTimers == 2
MaxPresentations == 3
MaxClicks == 3

(***************************************************************************)
(* Strings                                                                 *)
(***************************************************************************)
Digits == {"0", "1", "2", "3", "4", "5", "6", "7", "8", "9"}
\* the characters \s matches, as far as the model's inputs use them
Whitespace == {" "}

\* value.replace(/\D/g, "")
DigitsOnly(s) == SelectSeq(s, LAMBDA c : c \in Digits)

\* the pattern without its ".tld" part
emailRegexNoTld(s) ==
    \E i \in 1..Len(s) :
        /\ s[i] = "@"
        /\ 1 < i
        /\ i < Len(s)
        /\ \A k \in 1..Len(s) : k # i => s[k] \notin (Whitespace \cup {"@"})

\* /^[^\s@]+@[^\s@]+\.[^\s@]+$/.test(s)
emailRegex(s) ==
    \E i \in 1..Len(s) : \E j \in 1..Len(s) :
        /\ s[i] = "@"
        /\ s[j] = "."
        /\ 1 < i
        /\ i + 1 < j
        /\ j < Len(s)
        /\ \A k \in 1..Len(s) : k # i => s[k] \notin (Whitespace \cup {"@"})

\* /^0[689]\d{8}$/.test(d)
thaiMobileRegex(d) ==
    /\ Len(d) = 10
    /\ d[1] = "0"
    /\ d[2] \in {"6", "8", "9"}
    /\ \A k \in 3..10 : d[k] \in Digits

\* /^0[2-7]\d{7}$/.test(d)
thaiLandlineRegex(d) ==
    /\ Len(d) = 9
    /\ d[1] = "0"
    /\ d[2] \in {"2", "3", "4", "5", "6", "7"}
    /\ \A k \in 3..9 : d[k] \in Digits

\* String.prototype methods on character sequences
trim(s) ==
    LET kept == {k \in 1..Len(s) : s[k] \notin Whitespace}
    IN IF kept = {} THEN <<>>
       ELSE SubSeq(s, CHOOSE k \in kept : \A j \in kept : k <= j,
                      CHOOSE k \in kept : \A j \in kept : j <= k)
startsWith(s, prefix) ==
    Len(prefix) <= Len(s) /\ SubSeq(s, 1, Len(prefix)) = prefix
includes(s, part) ==
    \E k \in 0..(Len(s) - Len(part)) : SubSeq(s, k + 1, k + Len(part)) = part
\* s.indexOf(c): zero-based, -1 if absent
indexOf(s, c) ==
    LET at == {k \in 1..Len(s) : s[k] = c}
    IN IF at = {} THEN -1 ELSE (CHOOSE k \in at : \A j \in at : k <= j) - 1
\* s.substring(start): zero-based start
substring(s, start) == SubSeq(s, start + 1, Len(s))
\* toLowerCase on the letters the model's labels use
lowerCase(s) == [k \in 1..Len(s) |-> IF s[k] = "O" THEN "o" ELSE s[k]]

\* String.prototype.toLowerCase on the form-mode spellings a definition uses
toLowerCase(s) ==
    CASE s = "Full-Page" -> "full-page"
      [] s = "FullPage"  -> "fullpage"
      [] s = "Single"    -> "single"
      [] OTHER           -> s

(***************************************************************************)
(* Answer values: string | string[] | number | File | File[] | null |     *)
(* boolean (and undefined for a key that is not there)                    *)
(***************************************************************************)
Str(s)    == [t |-> "string", v |-> s]
Num(n)    == [t |-> "number", v |-> n]
Bool(b)   == [t |-> "boolean", v |-> b]
Null      == [t |-> "null", v |-> 0]
Undefined == [t |-> "undefined", v |-> 0]
FileV(f)  == [t |-> "file", v |-> f]
\* an array of option labels; the empty array is List(<<>>)
List(l)   == [t |-> "array", v |-> l]
\* an array of File objects; an empty one is the empty array
Files(fs) == IF fs = <<>> THEN List(<<>>) ELSE [t |-> "files", v |-> fs]

isArray(x)   == x.t \in {"array", "files"}
isFile(x)    == x.t = "file"
\* Array.isArray(value) && value.length > 0 && value[0] instanceof File
isFileArray(x) == x.t = "files" /\ Len(x.v) > 0
\* JavaScript truthiness of a value
truthy(x) ==
    CASE x.t = "string"  -> x.v # <<>>
      [] x.t = "number"  -> x.v # 0
      [] x.t = "boolean" -> x.v
      [] x.t \in {"null", "undefined"} -> FALSE
      [] OTHER -> TRUE

\* obj[key]
Lookup(obj, key) == IF key \in DOMAIN obj THEN obj[key] ELSE Undefined

(***************************************************************************)
(* Questions and form definitions                                          *)
(***************************************************************************)
\* a Question as the schema sends it; an absent optional property is its
\* falsy value (required FALSE, multiple FALSE, section "", min 0, maxSize 0,
\* accept "")
Question(id, type, required, multiple, section, min) ==
    [id |-> id, type |-> type, required |-> required, multiple |-> multiple,
     section |-> section, min |-> min, maxSize |-> 0, accept |-> "",
     options |-> << <<"A">>, <<"B">> >>]

\* the type tags renderQuestionInput knows, and one it does not
QuestionTypes == {"choices", "text", "phone", "email", "rating", "file",
                  "date", "dropdown", "image", "consent", "slider"}
UnknownType == "linear-scale"

\* the state before any definition has been loaded (formConfig === null)
NoConfig == [null |-> TRUE]

\* the JSON object a fetch parses to
Definition(title, formMode, questions) ==
    [title |-> title, hasQuestions |-> TRUE, questions |-> questions,
     formMode |-> formMode, formModeSpaced |-> "",
     notifyEmails |-> "", slackChannel |-> "", responseSheet |-> "",
     driveUrl |-> "", emailCredential |-> "",
     senderEmail |-> "", senderName |-> ""]

\* a full-page form: required text, required single file
FullForm ==
    [Definition("Full", "Full-Page",
        << Question("q1", "text", TRUE, FALSE, "", 0),
           [Question("q3", "file", TRUE, FALSE, "", 0)
                EXCEPT !.accept = ".pdf"] >>)
     EXCEPT !.notifyEmails = "admin@x.co", !.senderEmail = "from@x.co",
            !.senderName = "Sender", !.emailCredential = "pir"]

\* a step-by-step form without sections (formMode absent)
StepForm ==
    Definition("Step", "",
        << Question("q1", "text", TRUE, FALSE, "", 0),
           Question("q2", "email", FALSE, FALSE, "", 0) >>)

\* a step-by-step form with sections: the first question declares none
SectionForm ==
    Definition("Sect", "Single",
        << Question("q1", "text", TRUE, FALSE, "", 0),
           Question("q4", "consent", TRUE, FALSE, "S1", 0) >>)

\* definitions without a usable question list
EmptyForm == Definition("Empty", "", <<>>)
NoQuestionsForm == [Definition("None", "", <<>>) EXCEPT !.hasQuestions = FALSE]

\* the identifiers the router can hand to the page
FormIds == {"full", "step", "sect"}

\* the shapes response.json() can yield
ObjectBody(data) == [kind |-> "object", items |-> <<data>>]
ArrayBody(items) == [kind |-> "array", items |-> items]
NullBody         == [kind |-> "null", items |-> <<>>]

\* the definition stored for an identifier: the n8n array wrapper for one
\* of them, the bare object for the others
RawData(id) ==
    CASE id = "full"  -> ObjectBody(FullForm)
      [] id = "step"  -> ArrayBody(<<StepForm>>)
      [] OTHER        -> ObjectBody(SectionForm)

\* what a 2xx response for an identifier can parse to: the stored
\* definition, or a body without usable questions
Bodies(id) ==
    {RawData(id), ObjectBody(EmptyForm), ObjectBody(NoQuestionsForm),
     ArrayBody(<<>>), NullBody}

\* const data = Array.isArray(rawData) ? rawData[0] : rawData
NoData == [null |-> TRUE]
DataOf(rawData) ==
    IF rawData.kind = "array"
    THEN IF Len(rawData.items) > 0 THEN rawData.items[1] ELSE NoData
    ELSE IF rawData.kind = "object" THEN rawData.items[1] ELSE NoData

\* the configuration test without its empty-list case
InvalidConfigurationNoLength(data) ==
    \/ data = NoData
    \/ ~data.hasQuestions

\* !data || !data.questions || data.questions.length === 0
InvalidConfiguration(data) ==
    \/ data = NoData
    \/ ~data.hasQuestions
    \/ Len(data.questions) = 0

(***************************************************************************)
(* Files                                                                   *)
(***************************************************************************)
\* a File object: name, type (MIME), size and the bytes it holds
File(name, type, data) ==
    [name |-> name, type |-> type, size |-> Len(data), data |-> data]

File1 == File("a.pdf", "application/pdf", <<77>>)
File2 == File("b.bin", "", <<77, 97, 110>>)
\* two large files, of one megabyte and of one byte more; of their bytes
\* only the first is kept
FileAtLimit   == [File("c.png", "image/png", <<77>>) EXCEPT !.size = 1024 * 1024]
FileOverLimit == [File("d.png", "image/png", <<77>>) EXCEPT !.size = 1024 * 1024 + 1]

\* the files a picker opened with the input's accept attribute offers
Extension(file) ==
    CASE file.name = "a.pdf" -> ".pdf"
      [] file.name \in {"c.png", "d.png"} -> ".png"
      [] OTHER -> ".bin"
SelectableFiles(accept) ==
    {file \in {File1, File2, FileAtLimit, FileOverLimit} :
        accept = "" \/ accept = Extension(file)}
\* what one use of the picker returns: one file, or two where the input
\* has the multiple attribute
Selections(q) ==
    {<<file>> : file \in SelectableFiles(q.accept)}
    \cup (IF q.multiple
          THEN {<<f, g>> : f \in SelectableFiles(q.accept),
                           g \in SelectableFiles(q.accept)}
          ELSE {})

\* the size test letting a file of exactly the limit fail
OversizedInclusive(q, selectedFiles) ==
    /\ q.maxSize # 0
    /\ \E i \in 1..Len(selectedFiles) :
          selectedFiles[i].size >= q.maxSize * 1024 * 1024

\* selectedFiles.find(f => f.size > maxBytes), where maxSize is set
Oversized(q, selectedFiles) ==
    /\ q.maxSize # 0
    /\ \E i \in 1..Len(selectedFiles) :
          selectedFiles[i].size > q.maxSize * 1024 * 1024

(***************************************************************************)
(* Validation messages (the Thai texts of the source, by name)            *)
(***************************************************************************)
NoError            == "null"
MsgSelectOne       == "select at least 1 option"
MsgRate            == "please rate"
MsgUploadOneFile   == "upload at least 1 file"
MsgUploadFile      == "please upload a file"
MsgAcceptTerms     == "please accept the terms"
MsgAdjust          == "please adjust the value"
MsgFillIn          == "please fill in"
MsgEmailFormat     == "invalid email format"
MsgDigitsOnly      == "digits only"
MsgPhoneMax10      == "phone at most 10 digits"
MsgPhoneStart0     == "phone must start with 0"
MsgPhoneFormat     == "invalid phone format"

(***************************************************************************)
(* Validator                                                               *)
(***************************************************************************)
\* the required-ness rule of validateQuestion for the value of a question
RequiredError(question, value) ==
    IF ~question.required THEN NoError
    ELSE IF question.type = "choices" /\ question.multiple THEN
        IF ~isArray(value) \/ Len(value.v) = 0 THEN MsgSelectOne ELSE NoError
    ELSE IF question.type = "rating" THEN
        IF value.t # "number" \/ value.v = 0 THEN MsgRate ELSE NoError
    ELSE IF question.type = "file" THEN
        IF question.multiple
        THEN IF ~isArray(value) \/ Len(value.v) = 0
             THEN MsgUploadOneFile ELSE NoError
        ELSE IF ~truthy(value) THEN MsgUploadFile ELSE NoError
    ELSE IF question.type = "consent" THEN
        IF value # Bool(TRUE) THEN MsgAcceptTerms ELSE NoError
    ELSE IF question.type = "slider" THEN
        IF value.t # "number" THEN MsgAdjust ELSE NoError
    ELSE IF ~truthy(value) THEN MsgFillIn ELSE NoError

\* the email rule of validateQuestion
EmailError(question, value) ==
    IF question.type = "email" /\ truthy(value) /\ value.t = "string"
       /\ ~emailRegex(value.v)
    THEN MsgEmailFormat ELSE NoError

\* the phone rule asking for a pattern only from 9 digits on
PhoneErrorLenient(question, value) ==
    IF question.type = "phone" /\ truthy(value) /\ value.t = "string"
    THEN LET digitsOnly == DigitsOnly(value.v) IN
         IF Len(digitsOnly) > 10 THEN MsgPhoneMax10
         ELSE IF /\ Len(digitsOnly) >= 9
                 /\ ~thaiMobileRegex(digitsOnly)
                 /\ ~thaiLandlineRegex(digitsOnly)
              THEN MsgPhoneFormat ELSE NoError
    ELSE NoError

\* the phone rule of validateQuestion
PhoneError(question, value) ==
    IF question.type = "phone" /\ truthy(value) /\ value.t = "string"
    THEN LET digitsOnly == DigitsOnly(value.v) IN
         IF Len(digitsOnly) > 10 THEN MsgPhoneMax10
         ELSE IF ~thaiMobileRegex(digitsOnly) /\ ~thaiLandlineRegex(digitsOnly)
              THEN MsgPhoneFormat ELSE NoError
    ELSE NoError

\* validateQuestion, reading the answer out of an answers map
validateQuestionIn(data, question) ==
    LET value == Lookup(data, question.id) IN
    IF RequiredError(question, value) # NoError
    THEN RequiredError(question, value)
    ELSE IF EmailError(question, value) # NoError
    THEN EmailError(question, value)
    ELSE PhoneError(question, value)

\* validateQuestion(question): the component's answers are formData
validateQuestion(question) == validateQuestionIn(formData, question)

\* format-only rules that know the mobile pattern only
validateQuestionValueMobileOnly(question, value) ==
    IF question.type = "email" /\ ~emailRegex(value) THEN MsgEmailFormat
    ELSE IF question.type = "phone" THEN
        LET digitsOnly == DigitsOnly(value) IN
        IF Len(digitsOnly) = 0 /\ Len(value) > 0 THEN MsgDigitsOnly
        ELSE IF Len(digitsOnly) > 10 THEN MsgPhoneMax10
        ELSE IF Len(digitsOnly) > 0 /\ digitsOnly[1] # "0" THEN MsgPhoneStart0
        ELSE IF Len(digitsOnly) >= 9 /\ ~thaiMobileRegex(digitsOnly)
             THEN MsgPhoneFormat
        ELSE NoError
    ELSE NoError

\* validateQuestionValue(question, value): the format-only rules used
\* while typing; value is a character sequence
validateQuestionValue(question, value) ==
    IF question.type = "email" /\ ~emailRegex(value) THEN MsgEmailFormat
    ELSE IF question.type = "phone" THEN
        LET digitsOnly == DigitsOnly(value) IN
        IF Len(digitsOnly) = 0 /\ Len(value) > 0 THEN MsgDigitsOnly
        ELSE IF Len(digitsOnly) > 10 THEN MsgPhoneMax10
        ELSE IF Len(digitsOnly) > 0 /\ digitsOnly[1] # "0" THEN MsgPhoneStart0
        ELSE IF /\ Len(digitsOnly) >= 9
                /\ ~thaiMobileRegex(digitsOnly)
                /\ ~thaiLandlineRegex(digitsOnly)
             THEN MsgPhoneFormat
        ELSE NoError
    ELSE NoError

\* formConfig.questions as a set of indices, and lookups in it
QuestionsOf(config) == IF config = NoConfig THEN <<>> ELSE config.questions
Ids(questions) == {questions[i].id : i \in 1..Len(questions)}
\* formConfig.questions.find(q => q.id === questionId): the first match
FindQuestion(questions, questionId) ==
    LET hits == {i \in 1..Len(questions) : questions[i].id = questionId}
    IN questions[CHOOSE i \in hits : \A j \in hits : i <= j]

\* the error object a forEach over `questions` builds: one entry per
\* failing question id (a later question with the same id overwrites)
ErrorsOf(questions) ==
    LET failing == {i \in 1..Len(questions) :
                        validateQuestion(questions[i]) # NoError}
        last(id) == CHOOSE i \in failing :
                        /\ questions[i].id = id
                        /\ \A j \in failing : questions[j].id = id => j <= i
    IN [id \in {questions[i].id : i \in failing} |->
            validateQuestion(questions[last(id)])]

(***************************************************************************)
(* Initial answers                                                         *)
(***************************************************************************)
\* the default a question's answer is initialised with on load
InitialValue(q) ==
    IF q.type = "choices" /\ q.multiple THEN List(<<>>)
    ELSE IF q.type = "rating" THEN Num(0)
    ELSE IF q.type = "file" THEN (IF q.multiple THEN List(<<>>) ELSE Null)
    ELSE IF q.type = "consent" THEN Bool(FALSE)
    ELSE IF q.type = "slider" THEN Num(q.min)
    ELSE Str(<<>>)

\* initialData spread over the previous answers instead of replacing them
InitialDataMerged(questions) ==
    [id \in Ids(questions) \cup DOMAIN formData |->
        IF id \in Ids(questions)
        THEN InitialValue(FindQuestion(questions, id))
        ELSE formData[id]]

\* initialData: one entry per question (a repeated id keeps the last)
InitialData(questions) ==
    LET last(id) == CHOOSE i \in 1..Len(questions) :
                        /\ questions[i].id = id
                        /\ \A j \in 1..Len(questions) :
                               questions[j].id = id => j <= i
    IN [id \in Ids(questions) |-> InitialValue(questions[last(id)])]

\* formMode as fetchFormConfig normalises it
NormalizedFormMode(data) ==
    LET rawFormMode == IF data.formMode # "" THEN data.formMode
                       ELSE data.formModeSpaced
    IN IF toLowerCase(rawFormMode) \in {"full-page", "fullpage"}
       THEN "full-page" ELSE "single"

(***************************************************************************)
(* Submission payload                                                      *)
(***************************************************************************)
B64Alphabet ==
    << "A","B","C","D","E","F","G","H","I","J","K","L","M","N","O","P",
       "Q","R","S","T","U","V","W","X","Y","Z","a","b","c","d","e","f",
       "g","h","i","j","k","l","m","n","o","p","q","r","s","t","u","v",
       "w","x","y","z","0","1","2","3","4","5","6","7","8","9","+","/" >>

\* the base64 text of a byte sequence
RECURSIVE Base64(_)
Base64(bytes) ==
    IF Len(bytes) = 0 THEN <<>>
    ELSE IF Len(bytes) = 1 THEN
        << B64Alphabet[(bytes[1] \div 4) + 1],
           B64Alphabet[((bytes[1] % 4) * 16) + 1], "=", "=" >>
    ELSE IF Len(bytes) = 2 THEN
        << B64Alphabet[(bytes[1] \div 4) + 1],
           B64Alphabet[((bytes[1] % 4) * 16) + (bytes[2] \div 16) + 1],
           B64Alphabet[((bytes[2] % 16) * 4) + 1], "=" >>
    ELSE
        << B64Alphabet[(bytes[1] \div 4) + 1],
           B64Alphabet[((bytes[1] % 4) * 16) + (bytes[2] \div 16) + 1],
           B64Alphabet[((bytes[2] % 16) * 4) + (bytes[3] \div 64) + 1],
           B64Alphabet[(bytes[3] % 64) + 1] >>
        \o Base64(SubSeq(bytes, 4, Len(bytes)))

\* what fileToBase64 resolves with: reader.result of readAsDataURL, the
\* text "data:<type>;base64,<base64 of the bytes>" as a sequence of pieces
fileToBase64(file) ==
    << "data:",
       IF file.type = "" THEN "application/octet-stream" ELSE file.type,
       ";base64," >> \o Base64(file.data)

\* the record a File is sent as
FileRecord(file) ==
    [filename |-> file.name, mimeType |-> file.type, size |-> file.size,
     base64 |-> fileToBase64(file)]

\* the preparation without its branch for several files
PreparedAnswerSingleOnly(value) ==
    IF isFile(value) THEN [t |-> "object", v |-> FileRecord(value.v)]
    ELSE value

\* one answer as handleSubmit prepares it
PreparedAnswer(value) ==
    IF isFile(value) THEN [t |-> "object", v |-> FileRecord(value.v)]
    ELSE IF isFileArray(value)
    THEN [t |-> "objects",
          v |-> [i \in 1..Len(value.v) |-> FileRecord(value.v[i])]]
    ELSE value

\* the answers object of the payload
PreparedAnswers(data) == [key \in DOMAIN data |-> PreparedAnswer(data[key])]

\* does handleSubmit have to await a file conversion for these answers
HasFiles(data) == \E key \in DOMAIN data : isFile(data[key]) \/ isFileArray(data[key])

\* new Date().toLocaleString('th-TH', ...): the time of the submission
SubmittedAt == "now"

\* the body of the submission request
Payload(id, config, data) ==
    [form_id |-> id,
     form_title |-> config.title,
     answers |-> PreparedAnswers(data),
     questions |-> config.questions,
     notify_emails |-> config.notifyEmails,
     slack_channel |-> config.slackChannel,
     response_sheet |-> config.responseSheet,
     drive_url |-> config.driveUrl,
     email_credential |-> config.emailCredential,
     submitted_at |-> SubmittedAt]

(***************************************************************************)
(* Unresolved operations (a bag): a fetch awaiting its response, a submission      *)
(* awaiting its file conversions (it captured the payload's inputs when it *)
(* started), a submission request awaiting its response                    *)
(***************************************************************************)
NoPayload == [null |-> TRUE]
FetchOp(id) ==
    [kind |-> "fetch", formId |-> id, payload |-> NoPayload, left |-> <<>>]
\* left: the fileToBase64 calls still awaited, one batch per file-valued
\* answer in the order of Object.entries(formData); the head batch is the
\* one in progress
ConvertOp(id, payload, left) ==
    [kind |-> "convert", formId |-> id, payload |-> payload, left |-> left]
SubmitOp(id, payload) ==
    [kind |-> "submit", formId |-> id, payload |-> payload, left |-> <<>>]

\* the conversions handleSubmit's loop awaits: for each entry of formData in
\* insertion order, one for a File, one per element for an array of Files
RECURSIVE Conversions(_, _)
Conversions(questions, data) ==
    IF questions = <<>> THEN <<>>
    ELSE LET q == Head(questions)
             value == Lookup(data, q.id)
             batch == IF isFile(value) THEN {1}
                      ELSE IF isFileArray(value) THEN 1..Len(value.v)
                      ELSE {}
             others == SelectSeq(Tail(questions), LAMBDA r : r.id # q.id)
         IN (IF batch = {} THEN <<>> ELSE <<batch>>) \o Conversions(others, data)

\* the sequence without its i-th element
RemoveAt(seq, i) == SubSeq(seq, 1, i - 1) \o SubSeq(seq, i + 1, Len(seq))

(***************************************************************************)
(* Rendering: which mode the page is in and which questions it shows       *)
(***************************************************************************)
Interactive == formState = "form" /\ formConfig # NoConfig

\* formConfig.questions.some(q => !!q.section)
hasSections(config) ==
    \E i \in 1..Len(config.questions) : config.questions[i].section # ""

FullPageMode == Interactive /\ formConfig.formMode # "single"
SectionWizard == Interactive /\ formConfig.formMode = "single"
                    /\ hasSections(formConfig)
StepWizard == Interactive /\ formConfig.formMode = "single"
                    /\ ~hasSections(formConfig)

\* q.section || 'General'
SectionLabel(q) == IF q.section # "" THEN q.section ELSE "General"

\* Array.from(new Set(questions.map(q => q.section || 'General'))):
\* the labels in order of first appearance
RECURSIVE Sections(_)
Sections(questions) ==
    IF questions = <<>> THEN <<>>
    ELSE LET front == Sections(SubSeq(questions, 1, Len(questions) - 1))
             label == SectionLabel(questions[Len(questions)])
         IN IF \E i \in 1..Len(front) : front[i] = label
            THEN front ELSE Append(front, label)

sections == Sections(formConfig.questions)
\* the section wizard can render only while its index names a section
SectionInRange == currentSectionIndex < Len(sections)
currentSection == sections[currentSectionIndex + 1]
\* the questions the section wizard renders
currentQuestions ==
    SelectSeq(formConfig.questions, LAMBDA q : SectionLabel(q) = currentSection)
isLastSection == currentSectionIndex = Len(sections) - 1

\* the step wizard can render only while its index names a question
QuestionInRange == currentQuestionIndex < Len(formConfig.questions)
currentQuestion == formConfig.questions[currentQuestionIndex + 1]

\* the questions whose widgets are on screen
Rendered ==
    IF FullPageMode THEN formConfig.questions
    ELSE IF SectionWizard
    THEN (IF SectionInRange THEN currentQuestions ELSE <<>>)
    ELSE IF StepWizard
    THEN (IF QuestionInRange THEN <<currentQuestion>> ELSE <<>>)
    ELSE <<>>

(***************************************************************************)
(* What the widgets can hand to handleChange                               *)
(***************************************************************************)
TextInputs  == { <<>>, <<"x">> }
EmailInputs == { <<>>, <<"a", "@", "b", ".", "c", "o">>, <<"a", "@", "b">> }
PhoneInputs == { <<>>, <<"0", "8", "1", "2", "3", "4", "5", "6", "7", "8">>,
                 <<"1", "2", "3", "4", "5", "6", "7", "8", "9", "0">> }
\* the further strings typed into the one-question sample forms
EmailSamples ==
    EmailInputs \cup
    { <<"a", ".", "b", "@">>, <<"@", "b", ".", "c">>, <<"a", "@", ".", "c">>,
      <<"a", "@", "b", ".">>, <<"a", "@", "@", "b", ".", "c">>,
      <<"a", " ", "@", "b", ".", "c">>, <<"a", ".", "b", "@", "c", ".", "d", ".", "e">> }
PhoneSamples ==
    PhoneInputs \cup
    { <<"0", "8", "1">>, <<"x">>, <<"0", "2", "1", "2", "3", "4", "5", "6", "7">>,
      <<"0", "8", "1", "2", "3", "4", "5", "6", "7">>,
      <<"0", "5", "1", "2", "3", "4", "5", "6", "7", "8">>,
      <<"0", "8", "-", "1", "2", "3", "4", "-", "5", "6", "7", "8">>,
      <<"0", "8", "1", "2", "3", "4", "5", "6", "7", "8", "9", "0", "1", "2", "3">> }
MaxRatingInput == 2

OptionsOf(q) == {q.options[i] : i \in 1..Len(q.options)}
\* what is typed into the free-text field of an "other" option
OtherTexts == { <<>>, <<" ">>, <<"x">>, <<"x", " ">>, <<"x", " ", "y">> }

\* ChoiceField.handleClick in multiple mode: toggle an option of the list
Toggle(list, option) ==
    IF \E i \in 1..Len(list) : list[i] = option
    THEN SelectSeq(list, LAMBDA o : o # option)
    ELSE Append(list, option)

(***************************************************************************)
(* The "other" option of ChoiceField and of the dropdown                   *)
(***************************************************************************)
\* OTHER_OPTIONS / otherVariants: the Latin-script entries
OTHER_OPTIONS == { <<"o", "t", "h", "e", "r">>, <<"O", "t", "h", "e", "r">>,
                   <<"O", "t", "h", "e", "r", "s">> }
NoOption == <<>>
\* options.find(opt => OTHER_OPTIONS.some(other =>
\*     opt.toLowerCase().includes(other.toLowerCase())))
otherOption(options) ==
    LET hits == {i \in 1..Len(options) :
                    \E other \in OTHER_OPTIONS :
                        includes(lowerCase(options[i]), lowerCase(other))}
    IN IF hits = {} THEN NoOption
       ELSE options[CHOOSE i \in hits : \A j \in hits : i <= j]

\* Array.isArray(value) ? value : value ? [value] : []
selectedValues(value) ==
    IF isArray(value) THEN value.v
    ELSE IF value.t = "string" /\ Len(value.v) > 0 THEN <<value.v>>
    ELSE <<>>
\* v === otherOption || v.startsWith(otherOption + ":")
IsOtherValue(options, v) ==
    v = otherOption(options) \/ startsWith(v, otherOption(options) \o <<":">>)

\* ChoiceField.getOtherText
getOtherText(options, value) ==
    LET selected == selectedValues(value)
        hits == {i \in 1..Len(selected) :
                    startsWith(selected[i], otherOption(options) \o <<":">>)}
    IN IF otherOption(options) = NoOption \/ hits = {} THEN <<>>
       ELSE trim(substring(selected[CHOOSE i \in hits : \A j \in hits : i <= j],
                           Len(otherOption(options)) + 1))

\* ChoiceField.isOtherSelected
isOtherSelected(options, value) ==
    /\ otherOption(options) # NoOption
    /\ \E i \in 1..Len(selectedValues(value)) :
          IsOtherValue(options, selectedValues(value)[i])

\* ChoiceField.handleClick: the value handed to onChange
handleClick(options, multiple, value, option) ==
    LET selected == selectedValues(value)
        isOther == otherOption(options) # NoOption /\ option = otherOption(options)
    IN IF multiple
       THEN IF isOther
            THEN IF isOtherSelected(options, value)
                 THEN List(SelectSeq(selected, LAMBDA v : ~IsOtherValue(options, v)))
                 ELSE List(Append(selected, otherOption(options)))
            ELSE List(Toggle(selected, option))
       ELSE IF isOther
            THEN IF isOtherSelected(options, value)
                 THEN Str(<<>>) ELSE Str(otherOption(options))
            ELSE Str(option)

\* ChoiceField.handleOtherTextChange: the value handed to onChange
handleOtherTextChange(options, multiple, value, text) ==
    LET filteredValues ==
            SelectSeq(selectedValues(value), LAMBDA v : ~IsOtherValue(options, v))
        entry == IF trim(text) # <<>>
                 THEN otherOption(options) \o <<":", " ">> \o trim(text)
                 ELSE otherOption(options)
    IN IF otherOption(options) = NoOption THEN value
       ELSE IF multiple THEN List(Append(filteredValues, entry))
       ELSE Str(entry)

\* the dropdown's isOtherSelected
dropdownIsOtherSelected(options, value) ==
    /\ otherOption(options) # NoOption
    /\ value.t = "string"
    /\ IsOtherValue(options, value.v)

\* the dropdown's otherTextValue
otherTextValue(options, value) ==
    IF dropdownIsOtherSelected(options, value) /\ includes(value.v, <<":">>)
    THEN trim(substring(value.v, indexOf(value.v, ":") + 1))
    ELSE <<>>

\* the onChange of the dropdown's free-text input
dropdownOtherText(options, text) ==
    IF trim(text) # <<>>
    THEN Str(otherOption(options) \o <<":", " ">> \o text)
    ELSE Str(otherOption(options))

\* the values the widget of question q can raise while its answer is value
InputValues(q, value) ==
    CASE q.type \in {"text", "date"} -> {Str(s) : s \in TextInputs}
      [] q.type = "email"   ->
            {Str(s) : s \in IF formId = "sample" THEN EmailSamples ELSE EmailInputs}
      [] q.type = "phone"   ->
            {Str(s) : s \in IF formId = "sample" THEN PhoneSamples ELSE PhoneInputs}
      [] q.type = "dropdown" ->
            {Str(s) : s \in OptionsOf(q) \cup {<<>>}}
            \cup (IF dropdownIsOtherSelected(q.options, value)
                  THEN {dropdownOtherText(q.options, text) : text \in OtherTexts}
                  ELSE {})
      [] q.type = "choices" ->
            {handleClick(q.options, q.multiple, value, o) : o \in OptionsOf(q)}
            \cup (IF isOtherSelected(q.options, value)
                  THEN {handleOtherTextChange(q.options, q.multiple, value, text) :
                           text \in OtherTexts}
                  ELSE {})
      [] q.type = "rating"  -> {Num(n) : n \in 1..MaxRatingInput}
      [] q.type = "slider"  -> {Num(n) : n \in q.min..(q.min + 1)}
      [] q.type = "consent" -> {Bool(value # Bool(TRUE))}
      [] OTHER -> {}

(***************************************************************************)
(* handleChange                                                            *)
(***************************************************************************)
\* setFormData(prev => ({ ...prev, [questionId]: value }))
SetAnswer(data, questionId, value) ==
    [key \in DOMAIN data \cup {questionId} |->
        IF key = questionId THEN value ELSE data[key]]

\* delete newErrors[questionId]
DeleteError(errors, questionId) ==
    [key \in DOMAIN errors \ {questionId} |-> errors[key]]

\* { ...prev, ...errors }
MergeErrors(prev, errors) ==
    [key \in DOMAIN prev \cup DOMAIN errors |->
        IF key \in DOMAIN errors THEN errors[key] ELSE prev[key]]

\* { ...prev, [questionId]: error }
SetError(errors, questionId, error) ==
    MergeErrors(errors, [key \in {questionId} |-> error])

\* a handleChange that clears errors of email and phone fields only
LiveErrorsKeep(errors, config, questionId, value) ==
    IF config = NoConfig THEN errors
    ELSE IF questionId \in Ids(config.questions)
            /\ FindQuestion(config.questions, questionId).type \in {"email", "phone"}
         THEN IF /\ truthy(value) /\ value.t = "string" /\ Len(value.v) > 0
                 /\ validateQuestionValue(
                        FindQuestion(config.questions, questionId), value.v) # NoError
              THEN SetError(errors, questionId,
                        validateQuestionValue(
                            FindQuestion(config.questions, questionId), value.v))
              ELSE DeleteError(errors, questionId)
         ELSE errors

\* the validationErrors handleChange leaves behind
LiveErrors(errors, config, questionId, value) ==
    IF config = NoConfig THEN errors
    ELSE IF /\ questionId \in Ids(config.questions)
            /\ FindQuestion(config.questions, questionId).type
                    \in {"email", "phone"}
            /\ truthy(value) /\ value.t = "string" /\ Len(value.v) > 0
            /\ validateQuestionValue(
                    FindQuestion(config.questions, questionId), value.v) # NoError
         THEN SetError(errors, questionId,
                    validateQuestionValue(
                        FindQuestion(config.questions, questionId), value.v))
         ELSE DeleteError(errors, questionId)

handleChange(questionId, value) ==
    /\ formData' = SetAnswer(formData, questionId, value)
    /\ validationErrors' = LiveErrors(validationErrors, formConfig, questionId, value)
    /\ UNCHANGED <<formId, formState, formConfig, errorMessage,
                   currentQuestionIndex, currentSectionIndex, pending>>

\* a text, choice, rating, slider or consent widget raises a value
InputChange ==
    /\ Interactive
    /\ \E i \in 1..Len(Rendered) :
         \E value \in InputValues(Rendered[i], Lookup(formData, Rendered[i].id)) :
            handleChange(Rendered[i].id, value)
    /\ UNCHANGED quizQuestion

\* the files a file question holds, as the widget lists them
FilesHeld(q, value) ==
    IF q.multiple THEN (IF isArray(value) THEN value.v ELSE <<>>)
    ELSE (IF isFile(value) THEN <<value.v>> ELSE <<>>)

\* the file input's onChange with the selected files
FileSelect ==
    /\ Interactive
    /\ \E i \in 1..Len(Rendered) : \E selectedFiles \in Selections(Rendered[i]) :
         LET q == Rendered[i]
             value == Lookup(formData, q.id)
         IN /\ q.type = "file"
            /\ Len(FilesHeld(q, value)) + Len(selectedFiles) <= MaxFiles
            /\ IF Oversized(q, selectedFiles)
               THEN UNCHANGED vars
               ELSE IF q.multiple
                    THEN handleChange(q.id, Files(FilesHeld(q, value) \o selectedFiles))
                    ELSE handleChange(q.id, FileV(selectedFiles[1]))
    /\ UNCHANGED quizQuestion

\* the X button next to a listed file
FileRemove ==
    /\ Interactive
    /\ \E i \in 1..Len(Rendered) :
         LET q == Rendered[i]
             files == FilesHeld(q, Lookup(formData, q.id))
         IN /\ q.type = "file"
            /\ \E index \in 1..Len(files) :
                 IF q.multiple
                 THEN handleChange(q.id, Files(RemoveAt(files, index)))
                 ELSE handleChange(q.id, Null)
    /\ UNCHANGED quizQuestion

(***************************************************************************)
(* Schema fetch                                                            *)
(***************************************************************************)
\* fetchFormConfig up to its await: the request for identifier id leaves
fetchFormConfig(id) ==
    /\ BagCardinality(pending) < MaxInflight
    /\ formState' = "loading"
    /\ errorMessage' = ""
    /\ currentQuestionIndex' = 0
    /\ currentSectionIndex' = 0
    /\ pending' = pending (+) SetToBag({FetchOp(id)})
    /\ UNCHANGED <<formConfig, formData, validationErrors>>

\* the router hands the mounted page another identifier: useEffect([formId])
RouteChange ==
    \E id \in FormIds \ {formId} :
        /\ formId' = id
        /\ fetchFormConfig(id)
    /\ UNCHANGED quizQuestion

\* the retry button of the error view
Retry ==
    /\ formState = "error"
    /\ UNCHANGED formId
    /\ fetchFormConfig(formId)
    /\ UNCHANGED quizQuestion

\* a fetch comes back 2xx and its body is parsed
FetchResolve ==
    \E op \in BagToSet(pending) :
        /\ op.kind = "fetch"
        /\ pending' = pending (-) SetToBag({op})
        /\ \E rawData \in Bodies(op.formId) :
           LET data == DataOf(rawData) IN
           IF InvalidConfiguration(data)
           THEN /\ errorMessage' = "Invalid form configuration"
                /\ formState' = "error"
                /\ UNCHANGED <<formConfig, formData>>
           ELSE /\ formConfig' = [data EXCEPT !.formMode = NormalizedFormMode(data)]
                /\ formData' = InitialData(data.questions)
                /\ formState' = "form"
                /\ UNCHANGED errorMessage
        /\ UNCHANGED <<formId, validationErrors, currentQuestionIndex,
                       currentSectionIndex>>
    /\ UNCHANGED quizQuestion

\* the catch block leaving the spinner up
FetchRejectSilent ==
    \E op \in BagToSet(pending) : \E message \in {"Failed to load form (500)", "Failed to fetch"} :
        /\ op.kind = "fetch"
        /\ pending' = pending (-) SetToBag({op})
        /\ errorMessage' = message
        /\ UNCHANGED <<formId, formState, formConfig, formData, validationErrors,
                       currentQuestionIndex, currentSectionIndex>>
    /\ UNCHANGED quizQuestion

\* a fetch fails: a non-2xx status or a network error
FetchFailures == {"Failed to load form (500)", "Failed to fetch"}
FetchReject ==
    \E op \in BagToSet(pending) : \E message \in FetchFailures :
        /\ op.kind = "fetch"
        /\ pending' = pending (-) SetToBag({op})
        /\ errorMessage' = message
        /\ formState' = "error"
        /\ UNCHANGED <<formId, formConfig, formData, validationErrors,
                       currentQuestionIndex, currentSectionIndex>>
    /\ UNCHANGED quizQuestion

(***************************************************************************)
(* Submission                                                              *)
(***************************************************************************)
\* handleSubmit showing the confirmation before the request has completed
handleSubmitOptimistic ==
    /\ BagCardinality(pending) < MaxInflight
    /\ formState' = "thankyou"
    /\ pending' = pending (+) SetToBag({
            IF HasFiles(formData)
            THEN ConvertOp(formId, Payload(formId, formConfig, formData),
                           Conversions(formConfig.questions, formData))
            ELSE SubmitOp(formId, Payload(formId, formConfig, formData)) })

\* handleSubmit up to its first await: the page shows the spinner and the
\* payload's inputs (formId, formConfig, formData of this render) are
\* captured; without a file answer the request leaves in the same turn
handleSubmit ==
    /\ BagCardinality(pending) < MaxInflight
    /\ formState' = "submitting"
    /\ pending' = pending (+) SetToBag({
            IF HasFiles(formData)
            THEN ConvertOp(formId, Payload(formId, formConfig, formData),
                           Conversions(formConfig.questions, formData))
            ELSE SubmitOp(formId, Payload(formId, formConfig, formData)) })

\* the awaited conversions once conversion i of the batch in progress is done
AfterConversion(left, i) ==
    IF Head(left) = {i} THEN Tail(left)
    ELSE <<Head(left) \ {i}>> \o Tail(left)

\* the request leaving as soon as one conversion is done
ConvertResolveFirst ==
    \E op \in BagToSet(pending) :
        /\ op.kind = "convert"
        /\ \E i \in Head(op.left) :
             pending' = (pending (-) SetToBag({op}))
                           (+) SetToBag({SubmitOp(op.formId, op.payload)})
        /\ UNCHANGED <<formId, formState, formConfig, formData, errorMessage,
                       validationErrors, currentQuestionIndex,
                       currentSectionIndex>>
    /\ UNCHANGED quizQuestion

\* one fileToBase64 of the batch in progress resolves, in any order within
\* the batch; when it was the last one awaited the request leaves
ConvertResolve ==
    \E op \in BagToSet(pending) :
        /\ op.kind = "convert"
        /\ \E i \in Head(op.left) :
             pending' = (pending (-) SetToBag({op})) (+) SetToBag({
                 IF AfterConversion(op.left, i) = <<>>
                 THEN SubmitOp(op.formId, op.payload)
                 ELSE [op EXCEPT !.left = AfterConversion(op.left, i)] })
        /\ UNCHANGED <<formId, formState, formConfig, formData, errorMessage,
                       validationErrors, currentQuestionIndex,
                       currentSectionIndex>>
    /\ UNCHANGED quizQuestion

\* a FileReader of the batch in progress fails (reader.onerror): the catch
\* block runs
ConvertReject ==
    \E op \in BagToSet(pending) :
        /\ op.kind = "convert"
        /\ pending' = pending (-) SetToBag({op})
        /\ formState' = "form"
        /\ UNCHANGED <<formId, formConfig, formData, errorMessage,
                       validationErrors, currentQuestionIndex,
                       currentSectionIndex>>
    /\ UNCHANGED quizQuestion

\* the submission request comes back 2xx (response.ok)
SubmitResolve ==
    \E op \in BagToSet(pending) :
        /\ op.kind = "submit"
        /\ pending' = pending (-) SetToBag({op})
        /\ formState' = "thankyou"
        /\ UNCHANGED <<formId, formConfig, formData, errorMessage,
                       validationErrors, currentQuestionIndex,
                       currentSectionIndex>>
    /\ UNCHANGED quizQuestion

\* the failure path wiping the answers back to their defaults
SubmitRejectClears ==
    \E op \in BagToSet(pending) :
        /\ op.kind = "submit"
        /\ pending' = pending (-) SetToBag({op})
        /\ formState' = "form"
        /\ formData' = InitialData(QuestionsOf(formConfig))
        /\ UNCHANGED <<formId, formConfig, errorMessage,
                       validationErrors, currentQuestionIndex,
                       currentSectionIndex>>
    /\ UNCHANGED quizQuestion

\* the submission request fails: a non-2xx status or a network error
SubmitReject ==
    \E op \in BagToSet(pending) :
        /\ op.kind = "submit"
        /\ pending' = pending (-) SetToBag({op})
        /\ formState' = "form"
        /\ UNCHANGED <<formId, formConfig, formData, errorMessage,
                       validationErrors, currentQuestionIndex,
                       currentSectionIndex>>
    /\ UNCHANGED quizQuestion

(***************************************************************************)
(* Full-page mode                                                          *)
(***************************************************************************)
\* a validateAll that stops at the first question
validateAllFirstOnly == validateQuestion(formConfig.questions[1]) = NoError

\* validateAll's verdict and the errors it sets
validateAll == DOMAIN ErrorsOf(formConfig.questions) = {}

\* the form's onSubmit
onFormSubmit ==
    /\ FullPageMode
    /\ validationErrors' = ErrorsOf(formConfig.questions)
    /\ IF validateAll
       THEN handleSubmit
       ELSE UNCHANGED <<formState, pending>>
    /\ UNCHANGED <<formId, formConfig, formData, errorMessage,
                   currentQuestionIndex, currentSectionIndex>>
    /\ UNCHANGED quizQuestion

(***************************************************************************)
(* Step wizard                                                             *)
(***************************************************************************)
\* validateCurrentQuestion's verdict and the errors it leaves
validateCurrentQuestion == validateQuestion(currentQuestion) = NoError

\* the errors set without spreading the previous ones
CurrentQuestionErrorsReplace ==
    IF validateCurrentQuestion
    THEN <<>>
    ELSE [key \in {currentQuestion.id} |-> validateQuestion(currentQuestion)]

CurrentQuestionErrors ==
    IF validateCurrentQuestion
    THEN DeleteError(validationErrors, currentQuestion.id)
    ELSE SetError(validationErrors, currentQuestion.id,
                  validateQuestion(currentQuestion))

\* the last-question test off by one
isLastQuestionOffByOne == currentQuestionIndex = Len(formConfig.questions)

isLastQuestion == currentQuestionIndex = Len(formConfig.questions) - 1

\* the Next button (shown before the last question)
handleNextQuestion ==
    /\ StepWizard /\ QuestionInRange /\ ~isLastQuestion
    /\ validationErrors' = CurrentQuestionErrors
    /\ IF validateCurrentQuestion
          /\ currentQuestionIndex < Len(formConfig.questions) - 1
       THEN currentQuestionIndex' = currentQuestionIndex + 1
       ELSE UNCHANGED currentQuestionIndex
    /\ UNCHANGED <<formId, formState, formConfig, formData, errorMessage,
                   currentSectionIndex, pending>>
    /\ UNCHANGED quizQuestion

\* a Previous that validates the question it leaves
handlePrevQuestionValidating ==
    /\ StepWizard /\ QuestionInRange
    /\ validationErrors' = CurrentQuestionErrors
    /\ IF currentQuestionIndex > 0 /\ validateCurrentQuestion
       THEN currentQuestionIndex' = currentQuestionIndex - 1
       ELSE UNCHANGED currentQuestionIndex
    /\ UNCHANGED <<formId, formState, formConfig, formData, errorMessage,
                   currentSectionIndex, pending>>
    /\ UNCHANGED quizQuestion

\* the Previous button
handlePrevQuestion ==
    /\ StepWizard /\ QuestionInRange
    /\ IF currentQuestionIndex > 0
       THEN currentQuestionIndex' = currentQuestionIndex - 1
       ELSE UNCHANGED currentQuestionIndex
    /\ UNCHANGED <<formId, formState, formConfig, formData, errorMessage,
                   validationErrors, currentSectionIndex, pending>>
    /\ UNCHANGED quizQuestion

\* progress dots that jump to any question
ProgressDotClickAny ==
    /\ StepWizard /\ QuestionInRange
    /\ \E index \in 0..(Len(formConfig.questions) - 1) :
         currentQuestionIndex' = index
    /\ UNCHANGED <<formId, formState, formConfig, formData, errorMessage,
                   validationErrors, currentSectionIndex, pending>>
    /\ UNCHANGED quizQuestion

\* a progress dot: only dots before the current question act
ProgressDotClick ==
    /\ StepWizard /\ QuestionInRange
    /\ \E index \in 0..(Len(formConfig.questions) - 1) :
         IF index < currentQuestionIndex
         THEN currentQuestionIndex' = index
         ELSE UNCHANGED currentQuestionIndex
    /\ UNCHANGED <<formId, formState, formConfig, formData, errorMessage,
                   validationErrors, currentSectionIndex, pending>>
    /\ UNCHANGED quizQuestion

\* the Submit button (shown on the last question)
handleQuizSubmit ==
    /\ StepWizard /\ QuestionInRange /\ isLastQuestion
    /\ validationErrors' = CurrentQuestionErrors
    /\ IF validateCurrentQuestion
       THEN handleSubmit
       ELSE UNCHANGED <<formState, pending>>
    /\ UNCHANGED <<formId, formConfig, formData, errorMessage,
                   currentQuestionIndex, currentSectionIndex>>
    /\ UNCHANGED quizQuestion

(***************************************************************************)
(* Section wizard                                                          *)
(***************************************************************************)
\* the errors validateSection(sectionName) finds
SectionErrors(sectionName) ==
    ErrorsOf(SelectSeq(formConfig.questions, LAMBDA q : q.section = sectionName))
validateSection(sectionName) == DOMAIN SectionErrors(sectionName) = {}
\* validationErrors after validateSection(sectionName)
SectionValidationErrors(sectionName) ==
    IF validateSection(sectionName) THEN validationErrors
    ELSE MergeErrors(validationErrors, SectionErrors(sectionName))

\* the Next button (shown before the last section)
handleNextSection ==
    /\ SectionWizard /\ SectionInRange /\ ~isLastSection
    /\ validationErrors' = SectionValidationErrors(currentSection)
    /\ IF validateSection(currentSection)
       THEN currentSectionIndex' = currentSectionIndex + 1
       ELSE UNCHANGED currentSectionIndex
    /\ UNCHANGED <<formId, formState, formConfig, formData, errorMessage,
                   currentQuestionIndex, pending>>
    /\ UNCHANGED quizQuestion

\* the Previous button
handlePrevSection ==
    /\ SectionWizard /\ SectionInRange
    /\ IF currentSectionIndex > 0
       THEN currentSectionIndex' = currentSectionIndex - 1
       ELSE UNCHANGED currentSectionIndex
    /\ UNCHANGED <<formId, formState, formConfig, formData, errorMessage,
                   validationErrors, currentQuestionIndex, pending>>
    /\ UNCHANGED quizQuestion

\* the Submit button (shown on the last section)
SectionSubmit ==
    /\ SectionWizard /\ SectionInRange /\ isLastSection
    /\ validationErrors' = SectionValidationErrors(currentSection)
    /\ IF validateSection(currentSection)
       THEN handleSubmit
       ELSE UNCHANGED <<formState, pending>>
    /\ UNCHANGED <<formId, formConfig, formData, errorMessage,
                   currentQuestionIndex, currentSectionIndex>>
    /\ UNCHANGED quizQuestion

(***************************************************************************)
(* QuizQuestion: the quiz component that presents one question            *)
(***************************************************************************)
\* blinkingOptionId === null
NoBlink == "null"
\* the ids of the options the component renders
QuizOptionIds == {"A", "B"}
\* no QuizQuestion is rendered (the form page is on display)
NotRendered ==
    [mounted |-> FALSE, presented |-> 0, blinkingOptionId |-> NoBlink,
     timers |-> EmptyBag, calls |-> <<>>]
\* the component as mounted with its first question: presented counts the
\* questions its parent has handed it, timers are the pending setTimeout
\* callbacks with the option and the render they closed over, calls are
\* the onSelectOption calls made so far
Mounted ==
    [mounted |-> TRUE, presented |-> 1, blinkingOptionId |-> NoBlink,
     timers |-> EmptyBag, calls |-> <<>>]

\* an option button's onClick: handleOptionClick(option.id)
handleOptionClick ==
    /\ quizQuestion.mounted
    /\ BagCardinality(quizQuestion.timers) < MaxTimers
    /\ Len(quizQuestion.calls) + BagCardinality(quizQuestion.timers) < MaxClicks
    /\ \E optionId \in QuizOptionIds :
         quizQuestion' =
            [quizQuestion EXCEPT
                !.blinkingOptionId = optionId,
                !.timers = @ (+) SetToBag({[optionId |-> optionId,
                                            presented |-> quizQuestion.presented]})]
    /\ UNCHANGED pageVars

\* a setTimeout callback runs: onSelectOption(optionId) of the render that
\* was clicked, then setBlinkingOptionId(null) (nothing once unmounted)
TimerFires ==
    /\ \E timer \in BagToSet(quizQuestion.timers) :
         quizQuestion' =
            [quizQuestion EXCEPT
                !.timers = @ (-) SetToBag({timer}),
                !.calls = Append(@, [optionId |-> timer.optionId,
                                     clicked |-> timer.presented,
                                     delivered |-> quizQuestion.presented,
                                     mounted |-> quizQuestion.mounted]),
                !.blinkingOptionId =
                    IF quizQuestion.mounted THEN NoBlink ELSE @]
    /\ UNCHANGED pageVars

\* the parent re-renders the component with another question
QuestionReplaced ==
    /\ quizQuestion.mounted
    /\ quizQuestion.presented < MaxPresentations
    /\ quizQuestion' = [quizQuestion EXCEPT !.presented = @ + 1]
    /\ UNCHANGED pageVars

\* the parent stops rendering the component
Unmount ==
    /\ quizQuestion.mounted
    /\ quizQuestion' = [quizQuestion EXCEPT !.mounted = FALSE]
    /\ UNCHANGED pageVars

InitQuiz ==
    /\ formId = "full"
    /\ formState = "loading"
    /\ formConfig = NoConfig
    /\ formData = <<>>
    /\ errorMessage = ""
    /\ validationErrors = <<>>
    /\ currentQuestionIndex = 0
    /\ currentSectionIndex = 0
    /\ pending = EmptyBag
    /\ quizQuestion = Mounted

NextQuiz ==
    \/ handleOptionClick
    \/ TimerFires
    \/ QuestionReplaced
    \/ Unmount

SpecQuiz == InitQuiz /\ [][NextQuiz]_vars

\* C30: a presented question gets at most one onSelectOption call: while a
\* delivery is pending no further click schedules another, and no call is
\* made after the question was replaced or the component unmounted.
C30_SingleDelivery ==
    /\ BagCardinality(quizQuestion.timers) <= 1
    /\ \A i \in 1..Len(quizQuestion.calls) :
         /\ quizQuestion.calls[i].mounted
         /\ quizQuestion.calls[i].delivered = quizQuestion.calls[i].clicked
         /\ \A j \in 1..Len(quizQuestion.calls) :
              quizQuestion.calls[j].clicked = quizQuestion.calls[i].clicked
                 => j = i

(***************************************************************************)
(* The page                                                                *)
(***************************************************************************)
\* the component is mounted for an identifier and its mount effect has
\* issued the first fetch
Init ==
    /\ formId \in FormIds
    /\ formState = "loading"
    /\ formConfig = NoConfig
    /\ formData = <<>>
    /\ errorMessage = ""
    /\ validationErrors = <<>>
    /\ currentQuestionIndex = 0
    /\ currentSectionIndex = 0
    /\ pending = SetToBag({FetchOp(formId)})
    /\ quizQuestion = NotRendered

Next ==
    \/ RouteChange
    \/ Retry
    \/ FetchResolve
    \/ FetchReject
    \/ InputChange
    \/ FileSelect
    \/ FileRemove
    \/ onFormSubmit
    \/ handleNextQuestion
    \/ handlePrevQuestion
    \/ ProgressDotClick
    \/ handleQuizSubmit
    \/ handleNextSection
    \/ handlePrevSection
    \/ SectionSubmit
    \/ ConvertResolve
    \/ ConvertReject
    \/ SubmitResolve
    \/ SubmitReject

Spec == Init /\ [][Next]_vars

TypeOK ==
    /\ formId \in FormIds \cup {"sample"}
    /\ formState \in {"loading", "error", "form", "submitting", "thankyou"}
    /\ BagCardinality(pending) <= MaxInflight

(***************************************************************************)
(* C1                                                                      *)
(***************************************************************************)
AllQuestionsPass ==
    \A i \in 1..Len(formConfig.questions) :
        validateQuestion(formConfig.questions[i]) = NoError
FailingIds ==
    {formConfig.questions[i].id :
        i \in {j \in 1..Len(formConfig.questions) :
                  validateQuestion(formConfig.questions[j]) # NoError}}

\* C1: in full-page mode a submit starts a submission only if every
\* question of the form passes validateQuestion; otherwise nothing is
\* started, formState stays 'form' and validationErrors becomes exactly the
\* failing questions.
C1_FullPageSubmit ==
    [][onFormSubmit =>
        /\ (pending' # pending \/ formState' # "form") => AllQuestionsPass
        /\ ~AllQuestionsPass =>
              /\ pending' = pending
              /\ formState' = "form"
              /\ DOMAIN validationErrors' = FailingIds
              /\ \A id \in FailingIds : validationErrors'[id] # NoError]_vars

\* the full-page form after a submit that found both questions failing
C1_Witness ==
    /\ FullPageMode
    /\ formConfig.title = "Full"
    /\ DOMAIN validationErrors = {"q1", "q3"}
    /\ formData["q1"] = Str(<<>>) /\ formData["q3"] = Null

(***************************************************************************)
(* C2                                                                      *)
(***************************************************************************)
\* C2: in the section wizard, Next and the last section's Submit neither
\* advance the section index nor start a submission while a question
\* rendered for the current section (labelled or not) fails
\* validateQuestion.
C2_SectionValidation ==
    [][(handleNextSection \/ SectionSubmit) =>
        ((\E i \in 1..Len(currentQuestions) :
              validateQuestion(currentQuestions[i]) # NoError)
         => /\ currentSectionIndex' = currentSectionIndex
            /\ pending' = pending
            /\ formState' = "form")]_vars

(***************************************************************************)
(* C3                                                                      *)
(***************************************************************************)
\* the Next button of the step wizard, whichever handler it is bound to
StepNext == handleNextQuestion \/ handleQuizSubmit
CurrentFails ==
    currentQuestion.required /\ validateQuestion(currentQuestion) # NoError

\* C3 (strong form): next on a failing required question leaves the index,
\* starts no submission and leaves validationErrors with exactly one
\* entry, that question's.
C3_ExactlyOneError ==
    [][(StepNext /\ CurrentFails) =>
        /\ currentQuestionIndex' = currentQuestionIndex
        /\ pending' = pending
        /\ DOMAIN validationErrors' = {currentQuestion.id}]_vars

\* C3: next on a failing required question leaves the index,
\* starts no submission, sets that question's entry of validationErrors to
\* the validator's message and leaves every other entry as it was.
C3_NextOnInvalid ==
    [][(StepNext /\ CurrentFails) =>
        /\ currentQuestionIndex' = currentQuestionIndex
        /\ pending' = pending
        /\ formState' = "form"
        /\ currentQuestion.id \in DOMAIN validationErrors'
        /\ validationErrors'[currentQuestion.id] = validateQuestion(currentQuestion)
        /\ \A key \in (DOMAIN validationErrors \cup DOMAIN validationErrors')
                        \ {currentQuestion.id} :
              /\ key \in DOMAIN validationErrors
              /\ key \in DOMAIN validationErrors'
              /\ validationErrors'[key] = validationErrors[key]]_vars

\* the step wizard back on its required first question, which has failed,
\* while the second question still shows the error of a malformed email
C3_Witness ==
    /\ StepWizard
    /\ currentQuestionIndex = 0
    /\ formData["q1"] = Str(<<>>)
    /\ DOMAIN validationErrors = {"q1", "q2"}
    /\ validationErrors["q1"] = MsgFillIn
    /\ validationErrors["q2"] = MsgEmailFormat

(***************************************************************************)
(* C4                                                                      *)
(***************************************************************************)
\* C4: in the step wizard a next whose question passes starts the
\* submission (formState 'submitting', index unchanged) at the last index
\* N-1, and moves to index i+1 without a submission at any index i < N-1.
C4_NextOrSubmit ==
    [][(StepNext /\ validateQuestion(currentQuestion) = NoError) =>
        IF currentQuestionIndex = Len(formConfig.questions) - 1
        THEN /\ formState' = "submitting"
             /\ currentQuestionIndex' = currentQuestionIndex
             /\ BagCardinality(pending') = BagCardinality(pending) + 1
        ELSE /\ currentQuestionIndex' = currentQuestionIndex + 1
             /\ pending' = pending
             /\ formState' = "form"]_vars

\* the two-question step form submitted from its last index
C4_Witness ==
    /\ formConfig # NoConfig
    /\ formConfig.title = "Step"
    /\ formState = "submitting"
    /\ currentQuestionIndex = Len(formConfig.questions) - 1
    /\ \E op \in BagToSet(pending) :
          op.kind = "submit" /\ op.payload.form_title = "Step"

(***************************************************************************)
(* C6                                                                      *)
(***************************************************************************)
\* C6: in every reachable state the keys of formData are exactly the ids
\* of the questions of the loaded definition (none before the first load).
C6_AnswerKeys == DOMAIN formData = Ids(QuestionsOf(formConfig))

\* a second definition has replaced the first one, after the first one's
\* full-page submit had left an error on its file question
C6_Witness ==
    /\ formConfig # NoConfig
    /\ formConfig.title = "Step"
    /\ "q3" \in DOMAIN validationErrors
    /\ formData["q2"] # Str(<<>>)

C10_ThankyouOnlyOnSuccess ==
    [][(formState' = "thankyou" /\ formState # "thankyou") =>
        /\ SubmitResolve
        /\ \E op \in BagToSet(pending) :
              op.kind = "submit" /\ pending' = pending (-) SetToBag({op})]_vars

\* the confirmation screen, with no request left in flight
C10_Witness == formState = "thankyou" /\ pending = EmptyBag

(***************************************************************************)
(* C11                                                                     *)
(***************************************************************************)
\* this step puts a fetch request in flight
IssuesFetch ==
    \E id \in FormIds :
        CopiesIn(FetchOp(id), pending') > CopiesIn(FetchOp(id), pending)

\* C11: a failed fetch leaves the page in 'error' with the status or
\* message and starts no fetch; a fetch is started only by the retry
\* action or a change of identifier; retry starts the fetch for the
\* current identifier and shows 'loading'.
C11_ManualRetryOnly ==
    [][/\ FetchReject =>
            /\ formState' = "error"
            /\ errorMessage' \in FetchFailures
            /\ ~IssuesFetch
       /\ IssuesFetch => (Retry \/ RouteChange)
       /\ Retry =>
            /\ formState' = "loading"
            /\ formId' = formId
            /\ CopiesIn(FetchOp(formId), pending')
                  = CopiesIn(FetchOp(formId), pending) + 1]_vars

\* the error view after a failed fetch, nothing in flight
C11_Witness ==
    /\ formState = "error"
    /\ errorMessage \in FetchFailures
    /\ pending = EmptyBag

DefaultOf(q) ==
    CASE q.type = "choices" /\ q.multiple -> List(<<>>)
      [] q.type = "rating" -> Num(0)
      [] q.type = "file" /\ q.multiple -> Files(<<>>)
      [] q.type = "file" /\ ~q.multiple -> Null
      [] q.type = "consent" -> Bool(FALSE)
      [] q.type = "slider" -> Num(q.min)
      [] OTHER -> Str(<<>>)

\* C13: a successful fetch replaces the answers by one default per
\* question of the new definition, and when it brings the page into the
\* form state both indices are 0.
C13_DefaultsAndReset ==
    [][(FetchResolve /\ formState' = "form") =>
        /\ DOMAIN formData' = Ids(formConfig'.questions)
        /\ \A i \in 1..Len(formConfig'.questions) :
              formData'[formConfig'.questions[i].id]
                  = DefaultOf(formConfig'.questions[i])
        /\ formState # "form" =>
              /\ currentQuestionIndex' = 0
              /\ currentSectionIndex' = 0]_vars

(***************************************************************************)
(* C19                                                                     *)
(***************************************************************************)
\* a step that moves the step wizard to a later question
MovesForward == Next /\ currentQuestionIndex' > currentQuestionIndex
\* the second question of the step form was reached earlier (its answer
\* has been edited), the wizard is back on the first question, and the
\* first question does not pass validation any more
BackBelowFurthest ==
    /\ StepWizard
    /\ formConfig.title = "Step"
    /\ currentQuestionIndex = 0
    /\ formData["q2"] # Str(<<>>)
    /\ validateQuestion(currentQuestion) # NoError

C20_Previous ==
    [][/\ handlePrevQuestion =>
            /\ currentQuestionIndex' =
                  IF currentQuestionIndex > 0 THEN currentQuestionIndex - 1 ELSE 0
            /\ currentSectionIndex' = currentSectionIndex
       /\ handlePrevSection =>
            /\ currentSectionIndex' =
                  IF currentSectionIndex > 0 THEN currentSectionIndex - 1 ELSE 0
            /\ currentQuestionIndex' = currentQuestionIndex
       /\ (handlePrevQuestion \/ handlePrevSection) =>
            /\ formData' = formData
            /\ validationErrors' = validationErrors
            /\ UNCHANGED <<formId, formState, formConfig, errorMessage, pending>>]_vars

\* the step wizard back on its first question, having left the second
\* with a malformed email and its error showing
C20_Witness ==
    /\ StepWizard
    /\ formConfig.title = "Step"
    /\ currentQuestionIndex = 0
    /\ formData["q2"] = Str(<<"a", "@", "b">>)
    /\ validationErrors = [key \in {"q2"} |-> MsgEmailFormat]

(***************************************************************************)
(* C22                                                                     *)
(***************************************************************************)
\* C22: at most one fetch or submission is unresolved at any time: neither
\* a user action nor a change of the identifier starts one while an
\* earlier one is still in flight.
C22_SingleRequest == BagCardinality(pending) <= 1

(***************************************************************************)
(* C23                                                                     *)
(***************************************************************************)
\* C23: the form state is never active while a fetch or a submission is
\* unresolved, so no input or navigation happens between the start of a
\* request and its resolution.
C23_NoInputInFlight == pending # EmptyBag => formState # "form"

(***************************************************************************)
(* C25                                                                     *)
(***************************************************************************)
\* C25: in every form state currentQuestionIndex names a question of the
\* loaded definition and currentSectionIndex names one of its sections.
C25_IndicesInRange ==
    Interactive =>
        /\ currentQuestionIndex \in 0..(Len(formConfig.questions) - 1)
        /\ currentSectionIndex \in 0..(Len(sections) - 1)

(***************************************************************************)
(* C26                                                                     *)
(***************************************************************************)
\* C26: in the step wizard and the section wizard, whenever a submission
\* is issued every question of the whole form passes validateQuestion.
C26_WizardSubmitsValid ==
    [][((StepWizard \/ SectionWizard) /\ formState' = "submitting")
          => AllQuestionsPass]_vars

(***************************************************************************)
(* C27                                                                     *)
(***************************************************************************)
\* the definition on display is the one stored for identifier id
LoadedFor(id) ==
    LET data == DataOf(RawData(id))
    IN formConfig = [data EXCEPT !.formMode = NormalizedFormMode(data)]

\* C27: once every response has arrived, the form on display is the one
\* fetched for the current identifier: a response that belongs to a
\* superseded identifier is never applied.
C27_NoStaleResponse ==
    (pending = EmptyBag /\ formState = "form") => LoadedFor(formId)

(***************************************************************************)
(* C28                                                                     *)
(***************************************************************************)
\* C28: the keys of validationErrors are identifiers of questions of the
\* loaded definition, and a successful load enters the form state with
\* validationErrors empty.
C28_ErrorsOfLoadedForm ==
    /\ [](formConfig # NoConfig =>
            DOMAIN validationErrors \subseteq Ids(formConfig.questions))
    /\ [][(FetchResolve /\ formState' = "form") => validationErrors' = <<>>]_vars

(***************************************************************************)
(* The page with one sample definition loaded: a definition of one         *)
(* question of every type (required or not, multiple or not), or the       *)
(* upload form; full-page mode, driven by the widgets and the submit       *)
(* button                                                                  *)
(***************************************************************************)
SampleId == "sample"

SampleQuestions ==
    {Question("q1", type, required, FALSE, "", 0) :
        type \in (QuestionTypes \cup {UnknownType}) \ {"choices", "file", "slider"},
        required \in BOOLEAN}
    \cup {Question("q1", type, required, multiple, "", 0) :
        type \in {"choices", "file"}, required \in BOOLEAN, multiple \in BOOLEAN}
    \cup {Question("q1", "slider", required, FALSE, "", min) :
        required \in BOOLEAN, min \in {0, 1}}

SampleForm(questions) ==
    [Definition("Sample", "fullpage", questions)
     EXCEPT !.notifyEmails = "admin@x.co", !.slackChannel = "C01",
            !.responseSheet = "sheet", !.driveUrl = "drive",
            !.emailCredential = "pir", !.senderEmail = "from@x.co",
            !.senderName = "Sender"]

\* a single file, several files and a text, none of them required
UploadForm ==
    SampleForm(<< Question("q1", "file", FALSE, FALSE, "", 0),
                  Question("q2", "file", FALSE, TRUE, "", 0),
                  Question("q3", "text", FALSE, FALSE, "", 0) >>)

\* a single file and several files, each limited to one megabyte
LimitForm ==
    SampleForm(<< [Question("q1", "file", FALSE, FALSE, "", 0)
                      EXCEPT !.maxSize = 1, !.accept = ".png"],
                  [Question("q2", "file", FALSE, TRUE, "", 0)
                      EXCEPT !.maxSize = 1] >>)

\* a dropdown, a single choice and a multiple choice whose second option
\* is an "other" variant
OtherLabels == { <<"O", "t", "h", "e", "r">>,
                 <<"O", "t", "h", "e", "r", ":", " ", "e", "t", "c">> }
OtherForm(label) ==
    SampleForm(<< [Question("q1", "dropdown", FALSE, FALSE, "", 0)
                      EXCEPT !.options = << <<"A">>, label >>],
                  [Question("q2", "choices", FALSE, FALSE, "", 0)
                      EXCEPT !.options = << <<"A">>, label >>],
                  [Question("q3", "choices", FALSE, TRUE, "", 0)
                      EXCEPT !.options = << <<"A">>, label >>] >>)

\* a required text, an email and a phone
ContactForm ==
    SampleForm(<< Question("q1", "text", TRUE, FALSE, "", 0),
                  Question("q2", "email", FALSE, FALSE, "", 0),
                  Question("q3", "phone", FALSE, FALSE, "", 0) >>)

SampleForms ==
    {SampleForm(<<q>>) : q \in SampleQuestions}
    \cup {UploadForm, LimitForm, ContactForm}
    \cup {OtherForm(label) : label \in OtherLabels}

InitForms ==
    /\ formId = SampleId
    /\ formState = "form"
    /\ \E data \in SampleForms :
         /\ formConfig = [data EXCEPT !.formMode = NormalizedFormMode(data)]
         /\ formData = InitialData(data.questions)
    /\ errorMessage = ""
    /\ validationErrors = <<>>
    /\ currentQuestionIndex = 0
    /\ currentSectionIndex = 0
    /\ pending = EmptyBag
    /\ quizQuestion = NotRendered

NextForms ==
    \/ InputChange
    \/ FileSelect
    \/ FileRemove
    \/ onFormSubmit
    \/ ConvertResolve
    \/ ConvertReject
    \/ SubmitResolve
    \/ SubmitReject

SpecForms == InitForms /\ [][NextForms]_vars

(***************************************************************************)
(* C5                                                                      *)
(***************************************************************************)
GoodEmail == <<"a", "@", "b", ".", "c", "o">>
GoodPhone == <<"0", "8", "1", "2", "3", "4", "5", "6", "7", "8">>

\* a well-formed non-empty value of the type question q asks for
WellFormed(q, value) ==
    IF q.type = "choices" /\ q.multiple THEN value.t = "array" /\ Len(value.v) > 0
    ELSE IF q.type = "rating" THEN value.t = "number" /\ value.v >= 1
    ELSE IF q.type = "file" THEN
        (IF q.multiple THEN value.t = "files" /\ Len(value.v) > 0
         ELSE value.t = "file")
    ELSE IF q.type = "consent" THEN value = Bool(TRUE)
    ELSE IF q.type = "slider" THEN value.t = "number"
    ELSE IF q.type = "email" THEN value = Str(GoodEmail)
    ELSE IF q.type = "phone" THEN value = Str(GoodPhone)
    ELSE value.t = "string" /\ Len(value.v) > 0

\* C5: every required question, of every type, fails validateQuestion while
\* its answer is the default it was initialised with on load, and passes
\* once the answer is a well-formed non-empty value of its type.
C5_RequiredDefaultFails ==
    \A i \in 1..Len(QuestionsOf(formConfig)) :
        LET q == formConfig.questions[i]
            value == Lookup(formData, q.id)
        IN q.required =>
            /\ value = InitialValue(q) => validateQuestion(q) # NoError
            /\ (WellFormed(q, value) /\ value # InitialValue(q))
                    => validateQuestion(q) = NoError

(***************************************************************************)
(* C8                                                                      *)
(***************************************************************************)
\* the record documented for a file in the payload
IsFileRecordOf(record, file) ==
    /\ DOMAIN record = {"filename", "mimeType", "size", "base64"}
    /\ record.filename = file.name
    /\ record.mimeType = file.type
    /\ record.size \in Nat /\ record.size = file.size
    /\ Len(record.base64) > 0

C9_RoutingMetadata ==
    \A op \in BagToSet(pending) :
        op.kind = "submit" =>
            LET payload == op.payload IN
            /\ payload.form_id = formId
            /\ payload.form_title = formConfig.title
            /\ payload.questions = formConfig.questions
            /\ payload.submitted_at = SubmittedAt
            /\ payload.notify_emails = formConfig.notifyEmails
            /\ payload.slack_channel = formConfig.slackChannel
            /\ payload.response_sheet = formConfig.responseSheet
            /\ payload.drive_url = formConfig.driveUrl
            /\ "sender_email" \in DOMAIN payload
            /\ "sender_name" \in DOMAIN payload
            /\ payload.sender_email = formConfig.senderEmail
            /\ payload.sender_name = formConfig.senderName

(***************************************************************************)
(* C14                                                                     *)
(***************************************************************************)
\* the digits of a typed phone value, and the two documented patterns
PhoneDigits(s) == SelectSeq(s, LAMBDA c : c \in Digits)
MobilePattern(d) == Len(d) = 10 /\ d[1] = "0" /\ d[2] \in {"6", "8", "9"}
LandlinePattern(d) ==
    Len(d) = 9 /\ d[1] = "0" /\ d[2] \in {"2", "3", "4", "5", "6", "7"}
\* the phone questions of the loaded definition holding a non-empty string
TypedPhone(i) ==
    /\ formConfig.questions[i].type = "phone"
    /\ Lookup(formData, formConfig.questions[i].id).t = "string"
    /\ Len(Lookup(formData, formConfig.questions[i].id).v) > 0

\* C14 (with the 9-digit threshold): validateQuestion rejects a non-empty
\* phone value exactly when it has more than 10 digits, or its digits do
\* not start with 0, or it has at least 9 digits matching neither pattern.
C14_PhoneRuleThreshold ==
    \A i \in 1..Len(QuestionsOf(formConfig)) :
        TypedPhone(i) =>
            LET q == formConfig.questions[i]
                d == PhoneDigits(formData[q.id].v)
            IN (validateQuestion(q) # NoError) <=>
                  \/ Len(d) > 10
                  \/ Len(d) = 0 \/ d[1] # "0"
                  \/ (Len(d) >= 9 /\ ~MobilePattern(d) /\ ~LandlinePattern(d))

\* C14: validateQuestion rejects a non-empty phone value exactly when its
\* digits are more than 10 or match neither the mobile nor the landline
\* pattern, whatever their number; 0812345678 passes, 1234567890 and
\* 081234567890123 fail.
C14_PhoneRule ==
    \A i \in 1..Len(QuestionsOf(formConfig)) :
        TypedPhone(i) =>
            LET q == formConfig.questions[i]
                d == PhoneDigits(formData[q.id].v)
            IN /\ (validateQuestion(q) # NoError) <=>
                     (Len(d) > 10 \/ (~MobilePattern(d) /\ ~LandlinePattern(d)))
               /\ Len(d) > 10 => validateQuestion(q) = MsgPhoneMax10
               /\ formData[q.id].v = GoodPhone => validateQuestion(q) = NoError

\* a submit has rejected the three-digit value that live validation let by
C14_Witness ==
    /\ formConfig.questions[1].type = "phone"
    /\ formData["q1"] = Str(<<"0", "8", "1">>)
    /\ "q1" \in DOMAIN validationErrors
    /\ validationErrors["q1"] = MsgPhoneFormat

(***************************************************************************)
(* C15                                                                     *)
(***************************************************************************)
\* no whitespace and no "@" in a non-empty part
EmailPart(s) ==
    Len(s) > 0 /\ \A k \in 1..Len(s) : s[k] # " " /\ s[k] # "@"
\* local@domain.tld
EmailShape(s) ==
    \E at \in 1..Len(s) : \E dot \in (at + 1)..Len(s) :
        /\ s[at] = "@" /\ s[dot] = "."
        /\ EmailPart(SubSeq(s, 1, at - 1))
        /\ EmailPart(SubSeq(s, at + 1, dot - 1))
        /\ EmailPart(SubSeq(s, dot + 1, Len(s)))

\* C15: validateQuestion accepts a non-empty email value exactly when it
\* has the shape local@domain.tld, and rejects the empty value of a
\* required email question.
C15_EmailRule ==
    \A i \in 1..Len(QuestionsOf(formConfig)) :
        LET q == formConfig.questions[i]
            value == Lookup(formData, q.id)
        IN (q.type = "email" /\ value.t = "string") =>
            /\ Len(value.v) > 0 =>
                  ((validateQuestion(q) = NoError) <=> EmailShape(value.v))
            /\ (Len(value.v) = 0 /\ q.required) => validateQuestion(q) # NoError
            /\ value.v = GoodEmail => validateQuestion(q) = NoError
            /\ value.v \in {<<"a", "@", "b">>, <<"a", ".", "b", "@">>}
                  => validateQuestion(q) = MsgEmailFormat

\* "a.b@" typed into an email question and its format error showing
C15_Witness ==
    /\ formConfig.questions[1].type = "email"
    /\ formData["q1"] = Str(<<"a", ".", "b", "@">>)
    /\ "q1" \in DOMAIN validationErrors
    /\ validationErrors["q1"] = MsgEmailFormat

(***************************************************************************)
(* C16                                                                     *)
(***************************************************************************)
\* C16: for a file question limited to M megabytes, a selected file of
\* exactly M*1024*1024 bytes is not refused, one of a byte more is, and no
\* file held in its answer is larger than M*1024*1024 bytes.
C16_MaxSize ==
    \A i \in 1..Len(QuestionsOf(formConfig)) :
        LET q == formConfig.questions[i]
            held == FilesHeld(q, Lookup(formData, q.id))
            limit == q.maxSize * 1024 * 1024
        IN (q.type = "file" /\ q.maxSize > 0) =>
            /\ \A k \in 1..Len(held) : held[k].size <= limit
            /\ \A file \in SelectableFiles(q.accept) :
                  /\ file.size = limit => ~Oversized(q, <<file>>)
                  /\ file.size = limit + 1 => Oversized(q, <<file>>)

\* both limited questions hold the file of exactly one megabyte
C16_Witness ==
    /\ formConfig.questions[1].maxSize = 1
    /\ formData["q1"] = FileV(FileAtLimit)
    /\ formData["q2"] = Files(<<File1, FileAtLimit>>)

(***************************************************************************)
(* C17                                                                     *)
(***************************************************************************)
\* the free-text events and the re-parsing of the widget question q shows
EnterOtherText(q, value, text) ==
    IF q.type = "dropdown" THEN dropdownOtherText(q.options, text)
    ELSE handleOtherTextChange(q.options, q.multiple, value, text)
ShownOtherText(q, value) ==
    IF q.type = "dropdown" THEN otherTextValue(q.options, value)
    ELSE getOtherText(q.options, value)
OtherShowing(q, value) ==
    IF q.type = "dropdown" THEN dropdownIsOtherSelected(q.options, value)
    ELSE isOtherSelected(q.options, value)
\* the answer holds `entry` as its "other" selection
HoldsOther(q, value, entry) ==
    IF isArray(value)
    THEN \E i \in 1..Len(value.v) :
            /\ value.v[i] = entry
            /\ \A j \in 1..Len(value.v) :
                  IsOtherValue(q.options, value.v[j]) => j = i
    ELSE value = Str(entry)

\* C17: with the "other" option L of a choices or dropdown question
\* selected, entering any non-blank text X stores "L: X", clearing the
\* text stores exactly L again, and the stored "L: X" is shown back in the
\* free-text field as X.
C17_OtherRoundTrip ==
    \A i \in 1..Len(QuestionsOf(formConfig)) :
        LET q == formConfig.questions[i]
            value == Lookup(formData, q.id)
            L == otherOption(q.options)
        IN (q.type \in {"choices", "dropdown"} /\ OtherShowing(q, value)) =>
            \A X \in {text \in OtherTexts : trim(text) # <<>>} :
                LET stored == EnterOtherText(q, value, X)
                IN /\ HoldsOther(q, stored, L \o <<":", " ">> \o X)
                   /\ HoldsOther(q, EnterOtherText(q, stored, <<>>), L)
                   /\ ShownOtherText(q, stored) = X

(***************************************************************************)
(* C18                                                                     *)
(***************************************************************************)
\* value is a non-empty string failing the format-only rules of question q
LiveFails(q, value) ==
    /\ q.type \in {"email", "phone"}
    /\ value.t = "string"
    /\ Len(value.v) > 0
    /\ validateQuestionValue(q, value.v) # NoError

\* C18: an input change sets the answer of one question and no other;
\* afterwards that question has an entry in validationErrors exactly when
\* it is an email or phone question whose new value is a non-empty string
\* failing the format-only rules; the entries of the other questions, and
\* everything else, are unchanged.
C18_InputChangeFrame ==
    [][(InputChange \/ FileSelect \/ FileRemove) =>
        /\ DOMAIN formData' = DOMAIN formData
        /\ \E id \in DOMAIN formData :
              LET q == FindQuestion(formConfig.questions, id) IN
              /\ \A key \in DOMAIN formData \ {id} : formData'[key] = formData[key]
              /\ id \in DOMAIN validationErrors' <=> LiveFails(q, formData'[id])
              /\ id \in DOMAIN validationErrors' =>
                    validationErrors'[id] = validateQuestionValue(q, formData'[id].v)
              /\ DOMAIN validationErrors' \ {id} = DOMAIN validationErrors \ {id}
              /\ \A key \in DOMAIN validationErrors \ {id} :
                    validationErrors'[key] = validationErrors[key]
        /\ UNCHANGED <<formId, formState, formConfig, errorMessage,
                       currentQuestionIndex, currentSectionIndex, pending>>]_vars

\* after a refused submit the text has been filled in and its error is
\* gone, while the malformed email and phone show their live errors
C18_Witness ==
    /\ formConfig.title = "Sample"
    /\ Len(formConfig.questions) = 3
    /\ formData["q1"] = Str(<<"x">>)
    /\ DOMAIN validationErrors = {"q2", "q3"}
    /\ validationErrors["q2"] = MsgEmailFormat
    /\ validationErrors["q3"] = MsgPhoneStart0


(***************************************************************************)
(* C21                                                                     *)
(***************************************************************************)
\* every answer the widget of question q can hand to handleChange while
\* its answer is value: a raised value or an accepted file selection
WidgetValues(q, value) ==
    InputValues(q, value)
    \cup (IF q.type = "file"
          THEN {IF q.multiple THEN Files(FilesHeld(q, value) \o selectedFiles)
                ELSE FileV(selectedFiles[1]) :
                    selectedFiles \in {s \in Selections(q) : ~Oversized(q, s)}}
          ELSE {})
\* some input on the widget of question i makes that question pass
Correctable(i) ==
    LET q == formConfig.questions[i] IN
    \E value \in WidgetValues(q, Lookup(formData, q.id)) :
        validateQuestionIn(SetAnswer(formData, q.id, value), q) = NoError

\* C21: in every form state, a question that fails validation can be made
\* to pass by input on its rendered widget, also in a form holding a
\* question that renders no widget (unknown type tag, image).
C21_AlwaysRecoverable ==
    FullPageMode =>
        \A i \in 1..Len(formConfig.questions) :
            validateQuestion(formConfig.questions[i]) # NoError => Correctable(i)

(***************************************************************************)
(* C24                                                                     *)
(***************************************************************************)
\* the number of file records in the answers of a payload
RECURSIVE FileRecordsIn(_, _)
FileRecordsIn(answers, keys) ==
    IF keys = {} THEN 0
    ELSE LET key == CHOOSE k \in keys : TRUE
             here == IF answers[key].t = "object" THEN 1
                     ELSE IF answers[key].t = "objects" THEN Len(answers[key].v)
                     ELSE 0
         IN here + FileRecordsIn(answers, keys \ {key})
FileRecords(payload) == FileRecordsIn(payload.answers, DOMAIN payload.answers)
\* the number of conversions an unresolved submission still awaits
RECURSIVE Awaited(_)
Awaited(left) ==
    IF left = <<>> THEN 0 ELSE Cardinality(Head(left)) + Awaited(Tail(left))
Started(op)  == CopiesIn(op, pending') > CopiesIn(op, pending)
Finished(op) == CopiesIn(op, pending') < CopiesIn(op, pending)

\* C24: a submission starts awaiting one conversion per attached file; each
\* step completes exactly one of them, in any order within a batch; the
\* request leaves only when the last awaited conversion completes (or at
\* once when no file is attached); a failed conversion issues no request
\* and returns the page to the form state.
C24_AfterAllConversions ==
    [][/\ \A op \in BagToSet(pending') :
            (op.kind = "convert" /\ Started(op)) =>
                \/ /\ formState = "form" /\ formState' = "submitting"
                   /\ Awaited(op.left) = FileRecords(op.payload)
                   /\ Awaited(op.left) > 0
                \/ \E before \in BagToSet(pending) :
                      /\ before.kind = "convert" /\ Finished(before)
                      /\ before.payload = op.payload
                      /\ Awaited(op.left) = Awaited(before.left) - 1
                      /\ Awaited(op.left) > 0
       /\ \A op \in BagToSet(pending') :
            (op.kind = "submit" /\ Started(op)) =>
                \/ /\ formState = "form" /\ formState' = "submitting"
                   /\ FileRecords(op.payload) = 0
                \/ \E before \in BagToSet(pending) :
                      /\ before.kind = "convert" /\ Finished(before)
                      /\ before.payload = op.payload
                      /\ Awaited(before.left) = 1
       /\ \A before \in BagToSet(pending) :
            (before.kind = "convert" /\ Finished(before)) =>
                \/ \E op \in BagToSet(pending') :
                      Started(op) /\ op.payload = before.payload
                \/ /\ formState' = "form"
                   /\ \A op \in BagToSet(pending') : ~Started(op)]_vars

\* the request of a submission with three attached files (one single, two
\* in one answer) has left after conversions that completed out of order
C24_Witness ==
    /\ formState = "submitting"
    /\ \E op \in BagToSet(pending) :
         op.kind = "submit" /\ FileRecords(op.payload) = 3

(***************************************************************************)
(* C29                                                                     *)
(***************************************************************************)
\* question i is an email or phone question holding a non-empty string
\* that validateQuestion accepts
FullAccepts(i) ==
    LET q == formConfig.questions[i]
        value == Lookup(formData, q.id)
    IN /\ q.type \in {"email", "phone"}
       /\ value.t = "string" /\ Len(value.v) > 0
       /\ validateQuestion(q) = NoError

\* C29: a non-empty email or phone value that validateQuestion accepts is
\* accepted by validateQuestionValue too, and the question shows no error.
C29_LiveNotStricter ==
    \A i \in 1..Len(formConfig.questions) :
        FullAccepts(i) =>
            LET q == formConfig.questions[i] IN
            /\ validateQuestionValue(q, formData[q.id].v) = NoError
            /\ q.id \notin DOMAIN validationErrors

\* a phone question holds a nine-digit landline number, which both
\* validators accept
C29_Witness ==
    /\ formState = "form"
    /\ \E i \in 1..Len(formConfig.questions) :
         /\ FullAccepts(i)
         /\ formConfig.questions[i].type = "phone"
         /\ formData[formConfig.questions[i].id]
               = Str(<<"0", "2", "1", "2", "3", "4", "5", "6", "7">>)
====
